---- MODULE Spec2Model ----
(***************************************************************************)
(* Client-side authentication and API-access layer of the job portal:      *)
(* the AuthProvider session manager (contexts/AuthContext), the storage    *)
(* wrapper and dateUtils (utils), the HttpClient pipeline and              *)
(* handleApiError (services/api), and the hooks that call them.            *)
(*                                                                         *)
(* JavaScript values that may be absent are sequences of length 0 or 1:    *)
(* <<>> is null/undefined, <<v>> is the value v.                           *)
(***************************************************************************)
EXTENDS Integers, Sequences, FiniteSets, TLC

VARIABLES
  storage,      \* localStorage item under STORAGE_KEYS.TOKEN
  userStore,    \* whether localStorage holds an item under STORAGE_KEYS.USER
  user,         \* AuthProvider state `user`: <<>> or <<AuthUser>>
  isLoading,    \* AuthProvider state `isLoading`
  initialized,  \* the mount effect (initializeAuth) of this page load has run
  now,          \* Date.now(), in milliseconds
  nextTick,     \* <<>> or <<t>>: when the expiry-check interval fires next
  inflight,     \* requests handed to fetch and not yet settled
  last,         \* the operation that made the last step, and what it returned
  ui            \* state of the components rendered below AuthProvider

vars == <<storage, userStore, user, isLoading, initialized, now, nextTick, inflight, last, ui>>

----------------------------------------------------------------------------
\* Bounds of the model
MaxTime == 90000
MaxInflight == 2

\* Program constants
TimerInterval == 60000
MsPerSecond == 1000

TimeStep == TimerInterval \div 2
StartTimes == {0, TimerInterval}

----------------------------------------------------------------------------
\* Tokens.  A token is the list of segments token.split(".") yields; a
\* segment is base64 text or not, and its decoded text is a JSON object,
\* the JSON text null, or no JSON at all.

NoPayload == [sub |-> 0, role |-> "", exp |-> <<>>]
Payload(sub, role, exp) == [sub |-> sub, role |-> role, exp |-> exp]

Segment(b64, json, obj) == [b64 |-> b64, json |-> json, obj |-> obj]
OpaqueSegment == Segment(TRUE, "invalid", NoPayload)

Jwt(payloadSegment) == <<OpaqueSegment, payloadSegment, OpaqueSegment>>

TokSeeker == Jwt(Segment(TRUE, "object", Payload(1, "SEEKER", <<90>>)))
TokEmployer == Jwt(Segment(TRUE, "object", Payload(2, "EMPLOYER", <<30>>)))
TokNoExp == Jwt(Segment(TRUE, "object", Payload(3, "ADMIN", <<>>)))
TokNullPayload == Jwt(Segment(TRUE, "null", NoPayload))
TokBadJson == Jwt(Segment(TRUE, "invalid", NoPayload))
TokBadBase64 == Jwt(Segment(FALSE, "invalid", NoPayload))
TokNoDots == <<OpaqueSegment>>

DecodableTokens == {TokSeeker, TokEmployer, TokNoExp}
UndecodableTokens == {TokNullPayload, TokBadJson, TokBadBase64, TokNoDots}
Tokens == DecodableTokens \cup UndecodableTokens

\* JavaScript values a token variable can hold
JsNull == [t |-> "null", tok |-> <<>>]
JsUndefined == [t |-> "undefined", tok |-> <<>>]
JsEmptyString == [t |-> "emptystring", tok |-> <<>>]
JsNumber == [t |-> "number", tok |-> <<>>]
JsString(tok) == [t |-> "string", tok |-> tok]

\* if (token), if (response.accessToken)
Truthy(v) == v.t \in {"number", "string"}

----------------------------------------------------------------------------
\* localStorage item: absent, or a text that JSON.parse accepts (yielding
\* val) or rejects.

NoItem == [present |-> FALSE, json |-> FALSE, val |-> JsNull]
GarbageItem == [present |-> TRUE, json |-> FALSE, val |-> JsNull]
JsonItem(v) == [present |-> TRUE, json |-> TRUE, val |-> v]

\* storage.get: item ? JSON.parse(item) : null, null when JSON.parse throws
StorageGet(item) ==
  IF ~item.present THEN JsNull
  ELSE IF ~item.json THEN JsNull
  ELSE item.val

\* storage.set: localStorage.setItem(key, JSON.stringify(value))
StorageSet(v) == JsonItem(v)

\* storage.remove
StorageRemove == NoItem

StoredItems ==
  {NoItem, GarbageItem, JsonItem(JsEmptyString), JsonItem(JsNumber)}
    \cup {JsonItem(JsString(t)) : t \in Tokens}

----------------------------------------------------------------------------
\* dateUtils.isExpired: Date.now() >= expirationTime * 1000; with
\* expirationTime undefined the product is NaN and the comparison is false.
\* variant of isExpired that compares Date.now() with the seconds unscaled
isExpiredSeconds(exp, t) ==
  IF exp = <<>> THEN FALSE ELSE t >= exp[1]

isExpired(exp, t) ==
  IF exp = <<>> THEN FALSE ELSE t >= exp[1] * MsPerSecond

\* JSON.parse(atob(token.split(".")[1])) and the AuthUser built from it.
\* ok is FALSE when any step throws.
NoUser == [id |-> 0, role |-> "", exp |-> <<>>]

Atob(seg) == [ok |-> seg.b64, text |-> seg]

JsonParse(seg) == [ok |-> seg.json # "invalid", isNull |-> seg.json = "null", obj |-> seg.obj]

DecodeToken(v) ==
  IF v.t # "string" THEN [ok |-> FALSE, user |-> NoUser]          \* token.split is not a function
  ELSE IF Len(v.tok) < 2 THEN [ok |-> FALSE, user |-> NoUser]     \* atob(undefined) throws
  ELSE LET a == Atob(v.tok[2]) IN
    IF ~a.ok THEN [ok |-> FALSE, user |-> NoUser]
    ELSE LET p == JsonParse(a.text) IN
      IF ~p.ok THEN [ok |-> FALSE, user |-> NoUser]
      ELSE IF p.isNull THEN [ok |-> FALSE, user |-> NoUser]       \* payload.sub of null throws
      ELSE [ok |-> TRUE,
            user |-> [id |-> p.obj.sub, role |-> p.obj.role, exp |-> p.obj.exp]]

\* const isAuthenticated = !!user && !dateUtils.isExpired(user.exp)
isAuthenticated == user # <<>> /\ ~isExpired(user[1].exp, now)

----------------------------------------------------------------------------
\* Results and the history variable

NoResult == <<>>
Returned(success, message) == <<[thrown |-> FALSE, success |-> success, message |-> message]>>
Thrown(message) == <<[thrown |-> TRUE, success |-> FALSE, message |-> message]>>

\* prev is the operation before this one, kept for logout and reload; for
\* initialize it is the operation before the reload.
Event(op, caller, status, result, token) ==
  [op |-> op, caller |-> caller, status |-> status, result |-> result, token |-> token,
   prev |-> ""]

----------------------------------------------------------------------------
\* The two expiry effects of AuthProvider, run by React after a render in
\* which `user` changed: the check `user && isExpired(user.exp)` -> logout(),
\* and the interval being cleared and set again.

\* variant of clearAuthData without storage.remove(STORAGE_KEYS.TOKEN)
ClearedSessionKeepsToken == [storage |-> storage, userStore |-> FALSE, user |-> <<>>]

\* clearAuthData
ClearedSession == [storage |-> StorageRemove, userStore |-> FALSE, user |-> <<>>]

\* variant of the expiry effect that calls setUser(null) instead of logout()
ExpiryEffectMemoryOnly(s) ==
  IF s.user # <<>> /\ isExpired(s.user[1].exp, now) THEN [s EXCEPT !.user = <<>>] ELSE s

\* useEffect(() => { if (user && isExpired(user.exp)) logout() }, [user])
ExpiryEffect(s) ==
  IF s.user # <<>> /\ isExpired(s.user[1].exp, now) THEN ClearedSession ELSE s

Commit(s) ==
  /\ storage' = s.storage
  /\ userStore' = s.userStore
  /\ user' = s.user

Current == [storage |-> storage, userStore |-> userStore, user |-> user]

\* setInterval(..., 60000) of the [user] effect
RestartInterval == nextTick' = <<now + TimerInterval>>

----------------------------------------------------------------------------
\* initializeAuth, run by the mount effect
initializeAuth(s) ==
  LET token == StorageGet(s.storage) IN
  IF ~Truthy(token) THEN s
  ELSE LET d == DecodeToken(token) IN
    IF ~d.ok THEN ClearedSession
    ELSE IF isExpired(d.user.exp, now) THEN ClearedSession
    ELSE [s EXCEPT !.user = <<d.user>>]

Mount ==
  /\ ~initialized
  /\ initialized' = TRUE
  /\ Commit(ExpiryEffect(initializeAuth(Current)))
  /\ isLoading' = FALSE
  /\ RestartInterval
  /\ last' = [Event("initialize", "", <<>>, Returned(TRUE, ""), StorageGet(storage))
                EXCEPT !.prev = last.prev]
  /\ UNCHANGED <<ui, now, inflight>>

\* The page is loaded again: the component state is gone, localStorage stays.
Reload ==
  /\ initialized
  /\ initialized' = FALSE
  /\ user' = <<>>
  /\ isLoading' = TRUE
  /\ nextTick' = <<>>
  /\ inflight' = {}
  /\ last' = [Event("reload", "", <<>>, NoResult, JsNull) EXCEPT !.prev = last.op]
  /\ UNCHANGED <<ui, storage, userStore, now>>

\* variant of logout that also drops the pending requests
LogoutCancelsRequests ==
  /\ initialized
  /\ Commit(ClearedSession)
  /\ IF user # <<>> THEN RestartInterval ELSE UNCHANGED nextTick
  /\ inflight' = {}
  /\ last' = [Event("logout", "", <<>>, Returned(TRUE, ""), JsNull) EXCEPT !.prev = last.op]
  /\ UNCHANGED <<ui, isLoading, initialized, now>>

\* logout -> clearAuthData
Logout ==
  /\ initialized
  /\ Commit(ClearedSession)
  /\ IF user # <<>> THEN RestartInterval ELSE UNCHANGED nextTick
  /\ last' = [Event("logout", "", <<>>, Returned(TRUE, ""), JsNull) EXCEPT !.prev = last.op]
  /\ UNCHANGED <<ui, isLoading, initialized, now, inflight>>

\* The interval callback: if (user && isExpired(user.exp)) logout()
WatchdogTick ==
  /\ initialized
  /\ nextTick # <<>>
  /\ now >= nextTick[1]
  /\ Commit(ExpiryEffect(Current))
  /\ IF ExpiryEffect(Current).user # user
       THEN RestartInterval
       ELSE nextTick' = <<nextTick[1] + TimerInterval>>
  /\ last' = Event("tick", "", <<>>, Returned(ExpiryEffect(Current) # Current, ""), JsNull)
  /\ UNCHANGED <<ui, isLoading, initialized, now, inflight>>

\* Time passes; a due interval callback runs before more time passes.
AdvanceTime ==
  /\ initialized
  /\ now + TimeStep <= MaxTime
  /\ nextTick # <<>> => now < nextTick[1]
  /\ now' = now + TimeStep
  /\ last' = Event("time", "", <<>>, NoResult, JsNull)
  /\ UNCHANGED <<ui, storage, userStore, user, isLoading, initialized, nextTick, inflight>>

\* A consumer renders and reads the session from the context value.
ReadSession ==
  /\ initialized
  /\ last' = Event("read", "", <<>>, Returned(isAuthenticated, ""), JsNull)
  /\ UNCHANGED <<ui, storage, userStore, user, isLoading, initialized, now, nextTick, inflight>>

----------------------------------------------------------------------------
\* The HTTP pipeline (HttpClient.request / handleResponse) as its caller
\* sees it.  A request settles with a server response, with the abort of
\* the timeout, or with a network failure.

ErrorStatuses == {401, 409, 500}

Body(json, accessToken, hasUser, message) ==
  [json |-> json, accessToken |-> accessToken, user |-> hasUser, message |-> message]
NullBody == Body("null", JsUndefined, FALSE, "")
TextBody == Body("text", JsUndefined, FALSE, "")
ObjectBody(accessToken, hasUser, message) == Body("object", accessToken, hasUser, message)

Response(status, statusText, body) ==
  [kind |-> "response", status |-> status, statusText |-> statusText, body |-> body]
Aborted == [kind |-> "abort", status |-> 0, statusText |-> "", body |-> NullBody]
NetworkFailure == [kind |-> "network", status |-> 0, statusText |-> "", body |-> NullBody]

ApiError(status, statusText, message) ==
  [type |-> "ApiError", status |-> status, statusText |-> statusText, message |-> message]
TypeError == [type |-> "TypeError", status |-> 0, statusText |-> "",
              message |-> "Cannot read properties of null"]
SyntaxError == [type |-> "SyntaxError", status |-> 0, statusText |-> "",
                message |-> "Unexpected token in JSON"]

Rejected(error) == [thrown |-> TRUE, error |-> error, body |-> NullBody]
Resolved(body) == [thrown |-> FALSE, error |-> TypeError, body |-> body]

\* a || b on strings
OrElse(a, b) == IF a # "" THEN a ELSE b

\* handleResponse: !response.ok -> throw new ApiError(status, statusText,
\* errorData.message || statusText), errorData being {} when the body is no
\* JSON; errorData.message throws when the body is the JSON text null.
\* A response that is ok resolves with response.json() or response.text();
\* response.json() rejects when the body served as JSON is no JSON.
handleResponse(res) ==
  IF res.status < 200 \/ res.status > 299
    THEN IF res.body.json = "null" THEN Rejected(TypeError)
         ELSE Rejected(ApiError(res.status, res.statusText,
                                OrElse(res.body.message, res.statusText)))
    ELSE IF res.body.json = "invalid" THEN Rejected(SyntaxError)
    ELSE Resolved(res.body)

\* request: the catch block maps the abort to 408 and a failed fetch to 0
request(res) ==
  IF res.kind = "abort" THEN Rejected(ApiError(408, "Request Timeout", "Request timed out"))
  ELSE IF res.kind = "network" THEN Rejected(ApiError(0, "Network Error", "Failed to fetch"))
  ELSE handleResponse(res)

StatusTexts == {"", "status text"}
ErrorMessages == {"", "message of the backend"}

ErrorResponses ==
  {Response(st, tx, ObjectBody(JsUndefined, FALSE, m)) :
     st \in ErrorStatuses, tx \in StatusTexts, m \in ErrorMessages}
  \cup {Response(st, "", NullBody) : st \in ErrorStatuses}

Failures == ErrorResponses \cup {Aborted, NetworkFailure}

LoginResponses ==
  {Response(200, "OK", ObjectBody(JsString(t), u, "")) : t \in Tokens, u \in BOOLEAN}
  \cup {Response(200, "OK", ObjectBody(JsUndefined, FALSE, ""))}
  \cup {Response(200, "OK", NullBody), Response(200, "OK", TextBody)}

MessageResponses ==
  {Response(200, "OK", ObjectBody(JsUndefined, FALSE, m)) : m \in {"", "message of the backend"}}
  \cup {Response(200, "OK", NullBody), Response(200, "OK", TextBody)}

\* the status the caller's catch block sees: <<>> when nothing was thrown
\* or what was thrown is no ApiError
StatusOf(p) == IF p.thrown /\ p.error.type = "ApiError" THEN <<p.error.status>> ELSE <<>>

----------------------------------------------------------------------------
\* handleApiError: the message it returns, and what it does to localStorage

handleApiErrorMessage(error) ==
  IF error.type = "ApiError" THEN
    CASE error.status = 401 -> "Your session has expired. Please log in again."
      [] error.status = 403 -> "You do not have permission to perform this action."
      [] error.status = 404 -> "The requested resource was not found."
      [] error.status = 409 -> OrElse(error.message, "A conflict occurred. This item may already exist.")
      [] error.status = 422 -> OrElse(error.message, "Please check your input and try again.")
      [] error.status = 429 -> "Too many requests. Please try again later."
      [] error.status = 500 -> "A server error occurred. Please try again later."
      [] OTHER -> OrElse(error.message, "An unexpected error occurred.")
  ELSE error.message

\* case 401: storage.remove(TOKEN); storage.remove(USER)
handleApiErrorStorage(error, s) ==
  IF error.type = "ApiError" /\ error.status = 401
    THEN [s EXCEPT !.storage = StorageRemove, !.userStore = FALSE]
    ELSE s

\* variant of the catch block that lets the error out
Rethrow(error, s) ==
  [s |-> s, result |-> Thrown(error.message), setUser |-> FALSE]

\* catch (error) { const message = handleApiError(error); return {success: false, message} }
CatchApiError(error, s) ==
  [s |-> handleApiErrorStorage(error, s),
   result |-> Returned(FALSE, handleApiErrorMessage(error)),
   setUser |-> FALSE]

----------------------------------------------------------------------------
\* What App.tsx renders: the spinner while isLoading, the Dashboard when
\* user is set, one of the auth forms otherwise.
AuthFormShown == initialized /\ ~isLoading /\ user = <<>>
DashboardShown == initialized /\ ~isLoading /\ user # <<>>

\* getAuthHeaders: the token read from storage when the request is built
Request(caller) == [caller |-> caller, auth |-> StorageGet(storage)]

CanSend == Cardinality(inflight) < MaxInflight

----------------------------------------------------------------------------
\* login

\* variant of login without storage.set(STORAGE_KEYS.TOKEN, accessToken)
loginForgetsToStore(s, res) ==
  LET p == request(res) IN
  IF p.thrown THEN CatchApiError(p.error, s)
  ELSE IF p.body.json = "null" THEN CatchApiError(TypeError, s)
  ELSE IF Truthy(p.body.accessToken) THEN
    LET d == DecodeToken(p.body.accessToken)
    IN IF d.ok
         THEN [s |-> [s EXCEPT !.user = <<d.user>>,
                               !.userStore = IF p.body.user THEN TRUE ELSE @],
               result |-> Returned(TRUE, "Login successful!"),
               setUser |-> TRUE]
         ELSE [s |-> s,
               result |-> Returned(FALSE, "Invalid token received"),
               setUser |-> FALSE]
  ELSE [s |-> s, result |-> Returned(FALSE, "No access token received"), setUser |-> FALSE]

\* the body of login after `await authApi.login(credentials)` has settled
login(s, res) ==
  LET p == request(res) IN
  IF p.thrown THEN CatchApiError(p.error, s)
  ELSE IF p.body.json = "null" THEN CatchApiError(TypeError, s)
  ELSE IF Truthy(p.body.accessToken) THEN
    LET stored == [s EXCEPT !.storage = StorageSet(p.body.accessToken)]
        d == DecodeToken(p.body.accessToken)
    IN IF d.ok
         THEN [s |-> [stored EXCEPT !.user = <<d.user>>,
                                    !.userStore = IF p.body.user THEN TRUE ELSE @],
               result |-> Returned(TRUE, "Login successful!"),
               setUser |-> TRUE]
         ELSE [s |-> stored,
               result |-> Returned(FALSE, "Invalid token received"),
               setUser |-> FALSE]
  ELSE [s |-> s, result |-> Returned(FALSE, "No access token received"), setUser |-> FALSE]

LoginStart ==
  /\ AuthFormShown
  /\ CanSend
  /\ isLoading' = TRUE
  /\ inflight' = inflight \cup {Request("login")}
  /\ last' = Event("loginStart", "login", <<>>, NoResult, JsNull)
  /\ UNCHANGED <<ui, storage, userStore, user, initialized, now, nextTick>>

\* variant of login whose failure paths skip setIsLoading(false)
LoginDoneWithoutFinally ==
  \E r \in inflight : \E res \in LoginResponses \cup Failures :
    /\ r.caller = "login"
    /\ LET o == login(Current, res) IN
         /\ Commit(ExpiryEffect(o.s))
         /\ IF o.setUser THEN RestartInterval ELSE UNCHANGED nextTick
         /\ last' = Event("login", "login", StatusOf(request(res)), o.result,
                          IF res.kind = "response" THEN res.body.accessToken ELSE JsUndefined)
         /\ isLoading' = IF o.result[1].success THEN FALSE ELSE isLoading
    /\ inflight' = inflight \ {r}
    /\ UNCHANGED <<ui, initialized, now>>

LoginDone ==
  \E r \in inflight : \E res \in LoginResponses \cup Failures :
    /\ r.caller = "login"
    /\ LET o == login(Current, res) IN
         /\ Commit(ExpiryEffect(o.s))
         /\ IF o.setUser THEN RestartInterval ELSE UNCHANGED nextTick
         /\ last' = Event("login", "login", StatusOf(request(res)), o.result,
                          IF res.kind = "response" THEN res.body.accessToken ELSE JsUndefined)
    /\ isLoading' = FALSE
    /\ inflight' = inflight \ {r}
    /\ UNCHANGED <<ui, initialized, now>>

----------------------------------------------------------------------------
\* register, forgotPassword, resendVerificationEmail

PassThroughs == {"register", "forgotPassword", "resendVerificationEmail"}

DefaultMessage(op) ==
  CASE op = "register" ->
         "Registration successful! Please check your email to verify your account."
    [] op = "forgotPassword" -> "Password reset email sent successfully!"
    [] op = "resendVerificationEmail" -> "Verification email sent successfully!"

\* variant of register whose catch block calls clearAuthData
passThroughClearsOnFailure(op, s, res) ==
  LET p == request(res) IN
  IF p.thrown
    THEN [CatchApiError(p.error, s) EXCEPT !.s = ClearedSession]
  ELSE IF p.body.json = "null" THEN CatchApiError(TypeError, s)
  ELSE [s |-> s,
        result |-> Returned(TRUE, OrElse(p.body.message, DefaultMessage(op))),
        setUser |-> FALSE]

\* the body of the three functions after the await has settled
passThrough(op, s, res) ==
  LET p == request(res) IN
  IF p.thrown THEN CatchApiError(p.error, s)
  ELSE IF p.body.json = "null" THEN CatchApiError(TypeError, s)
  ELSE [s |-> s,
        result |-> Returned(TRUE, OrElse(p.body.message, DefaultMessage(op))),
        setUser |-> FALSE]

PassThroughStart ==
  \E op \in PassThroughs :
    /\ AuthFormShown
    /\ CanSend
    /\ isLoading' = TRUE
    /\ inflight' = inflight \cup {Request(op)}
    /\ last' = Event("start", op, <<>>, NoResult, JsNull)
    /\ UNCHANGED <<ui, storage, userStore, user, initialized, now, nextTick>>

PassThroughDone ==
  \E r \in inflight : \E res \in MessageResponses \cup Failures :
    /\ r.caller \in PassThroughs
    /\ LET o == passThrough(r.caller, Current, res) IN
         /\ Commit(o.s)
         /\ last' = Event("done", r.caller, StatusOf(request(res)), o.result, JsNull)
    /\ isLoading' = FALSE
    /\ inflight' = inflight \ {r}
    /\ UNCHANGED <<ui, initialized, now, nextTick>>

----------------------------------------------------------------------------
\* The data hooks of the Dashboard pages.  useJobs.fetchJobs stands for the
\* hooks whose catch block calls handleApiError;
\* useApplicationStatus.checkApplicationStatus only logs the error.

Hooks == {"useJobs.fetchJobs", "useApplicationStatus.checkApplicationStatus"}

\* variant of the hooks' catch block that clears the session on a 401
hookCatchClearsSession(caller, error, s) ==
  IF error.type = "ApiError" /\ error.status = 401 THEN ClearedSession ELSE s

hookCatch(caller, error, s) ==
  IF caller = "useApplicationStatus.checkApplicationStatus"
    THEN s
    ELSE handleApiErrorStorage(error, s)

HookStart ==
  \E h \in Hooks :
    /\ DashboardShown
    /\ CanSend
    /\ inflight' = inflight \cup {Request(h)}
    /\ last' = Event("start", h, <<>>, NoResult, JsNull)
    /\ UNCHANGED <<ui, storage, userStore, user, isLoading, initialized, now, nextTick>>

HookDone ==
  \E r \in inflight : \E res \in MessageResponses \cup Failures :
    /\ r.caller \in Hooks
    /\ LET p == request(res) IN
         /\ Commit(IF p.thrown THEN hookCatch(r.caller, p.error, Current) ELSE Current)
         /\ last' = Event("done", r.caller, StatusOf(p), NoResult, JsNull)
    /\ inflight' = inflight \ {r}
    /\ UNCHANGED <<ui, isLoading, initialized, now, nextTick>>

----------------------------------------------------------------------------
\* Component state.  AuthWrapper renders the loading screen, the Dashboard or
\* an auth form; a component's useState values exist while it is mounted.

\* Outside the sign-in screen and the pages no component is followed: ui is
\* the record of a screen with no LoginForm mounted.

----------------------------------------------------------------------------
Init ==
  /\ storage \in StoredItems
  /\ userStore = FALSE
  /\ user = <<>>
  /\ isLoading = TRUE
  /\ initialized = FALSE
  /\ now \in StartTimes
  /\ nextTick = <<>>
  /\ inflight = {}
  /\ last = Event("start", "", <<>>, NoResult, JsNull)
  /\ ui = [loginForm |-> <<>>, mounts |-> 0]

Next ==
  \/ Mount
  \/ Reload
  \/ Logout
  \/ WatchdogTick
  \/ AdvanceTime
  \/ ReadSession
  \/ LoginStart
  \/ LoginDone
  \/ PassThroughStart
  \/ PassThroughDone
  \/ HookStart
  \/ HookDone

Spec == Init /\ [][Next]_vars

----------------------------------------------------------------------------
\* The API layer on its own.  HttpClient.get/post/put/patch/delete build the
\* RequestInit, request merges the headers and arms the timeout, fetch
\* delivers the response headers or fails, handleResponse reads the body,
\* and the jobsApi / applicationsApi functions and their hooks shape what
\* the pages receive.

\* Bound of the clock of this layer
MaxClock == 20000

\* API_CONFIG.timeout
Timeout == 10000

ClockStep == Timeout \div 2

JsonContent == "application/json"
FormContent == "application/x-www-form-urlencoded"

\* `Bearer ${token}`
Bearer(token) == [scheme |-> "Bearer", token |-> token]

\* variant of getAuthHeaders without the `if (token)` test
getAuthHeadersUnguarded(item) == <<Bearer(StorageGet(item))>>

\* getAuthHeaders: <<>> when no Authorization header is set
getAuthHeaders(item) ==
  LET token == StorageGet(item) IN
  IF Truthy(token) THEN <<Bearer(token)>> ELSE <<>>

\* The data a caller hands to post/put/patch
ObjectData == [kind |-> "object", parts |-> {}]
FormData(parts) == [kind |-> "FormData", parts |-> parts]

\* RequestInit: method, the Content-Type the method sets (<<>> for none), body
NoBody == [kind |-> "none", parts |-> {}]
JsonBody == [kind |-> "json", parts |-> {}]
UrlEncodedBody == [kind |-> "urlencoded", parts |-> {}]
MultipartBody(parts) == [kind |-> "multipart", parts |-> parts]

Options(method, contentType, body) ==
  [method |-> method, headers |-> contentType, body |-> body]

\* post and patch share their body
WithData(method, data, contentType) ==
  IF data.kind = "FormData" THEN Options(method, <<>>, MultipartBody(data.parts))
  ELSE IF contentType = <<FormContent>> THEN Options(method, <<FormContent>>, UrlEncodedBody)
  ELSE Options(method, <<>>, JsonBody)

get == Options("GET", <<>>, NoBody)
post(data, contentType) == WithData("POST", data, contentType)
put(data) == Options("PUT", <<>>, JsonBody)
patch(data, contentType) == WithData("PATCH", data, contentType)
delete == Options("DELETE", <<>>, NoBody)

\* the headers request merges: API_CONFIG.headers, getAuthHeaders(), options.headers
MergedHeaders(options, item) ==
  [ContentType |-> IF options.headers # <<>> THEN options.headers ELSE <<JsonContent>>,
   Authorization |-> getAuthHeaders(item)]

\* variant of request without the FormData branch
requestConfigKeepsContentType(options, item) ==
  [method |-> options.method, body |-> options.body,
   headers |-> MergedHeaders(options, item)]

\* request, up to the try block: the config handed to fetch
requestConfig(options, item) ==
  [method |-> options.method, body |-> options.body,
   headers |-> IF options.body.kind = "multipart"
                 THEN [MergedHeaders(options, item) EXCEPT !.ContentType = <<>>]
                 ELSE MergedHeaders(options, item)]

----------------------------------------------------------------------------
\* The calls of this layer and what they hand to HttpClient

JobListCalls == {"jobsApi.getAll", "jobsApi.getUserJobs", "jobsApi.getAllAdmin"}
FetchAllApplications == "useAllApplications.fetchAllApplications"
CreateApplication == "useApplicationMutations.createApplication"

ApiCalls ==
  JobListCalls \cup {FetchAllApplications, CreateApplication,
                     "applicationsApi.update", "jobsApi.delete", "HttpClient.put"}

\* CreateApplicationData: resume is <<>> when no file was chosen
NoArgument == [description |-> "", resume |-> <<>>]
CreateApplicationData(resume) == [description |-> "cover letter", resume |-> resume]

Arguments(call) ==
  IF call = CreateApplication
    THEN {CreateApplicationData(<<>>), CreateApplicationData(<<"resume.pdf">>)}
    ELSE {NoArgument}

\* applicationsApi.create: formData.append("description", ...);
\* if (data.resume) formData.append("resume", ...)
applicationsApiCreateFormData(data) ==
  FormData({"description"} \cup (IF data.resume # <<>> THEN {"resume"} ELSE {}))

OptionsOf(call, arg) ==
  CASE call \in JobListCalls -> get
    [] call = FetchAllApplications -> get
    [] call = CreateApplication -> post(applicationsApiCreateFormData(arg), <<>>)
    [] call = "applicationsApi.update" -> patch(ObjectData, <<FormContent>>)
    [] call = "jobsApi.delete" -> delete
    [] call = "HttpClient.put" -> put(ObjectData)

\* The params of get.  A filter is left undefined, or set to null, to the
\* empty string or to a text.
JobFilters ==
  [search : {"undefined", "null", "", "ACTIVE"}, status : {"undefined", "null", "", "ACTIVE"}]

\* <<>>: the call has no params argument
Params(call) ==
  IF call \in {"jobsApi.getAll", "jobsApi.getAllAdmin"}
    THEN {<<>>} \cup {<<f>> : f \in JobFilters}
    ELSE {<<>>}

\* get: stringParams keeps the entries with value !== undefined && value !== null;
\* `${endpoint}?${new URLSearchParams(stringParams)}`.  mark: the "?" is
\* appended; query: the key=value pairs after it.
getUrl(params) ==
  IF params = <<>> THEN [mark |-> FALSE, query |-> {}]
  ELSE [mark |-> TRUE,
        query |-> {<<k, params[1][k]>> :
                     k \in {j \in DOMAIN params[1] : params[1][j] \notin {"undefined", "null"}}}]

----------------------------------------------------------------------------
\* Response bodies of the list endpoints.  A body is the JSON text null, an
\* array (items), an object (status, message and data, each possibly
\* absent), text that is not served as JSON, or text served as JSON that
\* JSON.parse rejects.

ApiBody(json, status, message, data, items) ==
  [json |-> json, status |-> status, message |-> message, data |-> data, items |-> items]

ArrayBody(items) == ApiBody("array", "", "", <<>>, items)
WrappedBody(status, message, data) == ApiBody("object", status, message, data, <<>>)
NullJson == ApiBody("null", "", "", <<>>, <<>>)
PlainText == ApiBody("text", "", "", <<>>, <<>>)
InvalidJson == ApiBody("invalid", "", "", <<>>, <<>>)

\* a job as the backend sends it: the owner under userId or under employerId
RawJob(id, userId, employerId) == [id |-> id, userId |-> userId, employerId |-> employerId]

JobLists ==
  {<<>>, <<RawJob(1, <<7>>, <<>>)>>, <<RawJob(2, <<>>, <<8>>)>>}

SuccessBodies ==
  {ArrayBody(l) : l \in JobLists}
  \cup {WrappedBody(st, "", <<l>>) : st \in {"", "success"}, l \in JobLists}
  \cup {WrappedBody(st, m, <<>>) : st \in {"", "success"}, m \in ErrorMessages}
  \cup {NullJson, PlainText, InvalidJson}

ApiErrorStatuses == {401, 403, 404, 409, 422, 429, 500, 503}

ApiResponses ==
  {Response(200, "OK", b) : b \in SuccessBodies}
  \cup {Response(st, tx, WrappedBody("", m, <<>>)) :
          st \in ApiErrorStatuses, tx \in StatusTexts, m \in ErrorMessages}
  \cup {Response(st, "", b) : st \in ApiErrorStatuses, b \in {NullJson, InvalidJson}}

----------------------------------------------------------------------------
\* What we return from jobsApi and applicationsApi

ApiReturned(value) == [thrown |-> FALSE, error |-> TypeError, value |-> <<value>>]
ApiThrown(error) == [thrown |-> TRUE, error |-> error, value |-> <<>>]

\* employerId: rawJob.userId
transformJob(rawJob) == [id |-> rawJob.id, employerId |-> rawJob.userId]

\* (response.data || []).map(transformJob)
TransformJobs(data) ==
  LET jobs == IF data # <<>> THEN data[1] ELSE <<>>
  IN [i \in 1..Len(jobs) |-> transformJob(jobs[i])]

\* { status: response.status || "success", message: response.message || "",
\*   data: ... }; reading a property of null throws
NormalizedJobs(response) ==
  IF response.json = "null" THEN ApiThrown(TypeError)
  ELSE ApiReturned([status |-> OrElse(response.status, "success"),
                    message |-> OrElse(response.message, ""),
                    data |-> TransformJobs(response.data)])

jobsApiGetAll(response) == NormalizedJobs(response)
jobsApiGetUserJobs(response) == NormalizedJobs(response)
jobsApiGetAllAdmin(response) == NormalizedJobs(response)

\* if (Array.isArray(response)) return response;
\* return response.data || response || []
applicationsApiGetAll(response) ==
  IF response.json = "array" THEN ApiReturned(response)
  ELSE IF response.json = "null" THEN ApiThrown(TypeError)
  ELSE IF response.data # <<>> THEN ApiReturned(ArrayBody(response.data[1]))
  ELSE ApiReturned(response)

\* applicationsApi.create and update: status, message and data: response.data
NormalizedItem(response) ==
  IF response.json = "null" THEN ApiThrown(TypeError)
  ELSE ApiReturned([status |-> OrElse(response.status, "success"),
                    message |-> OrElse(response.message, ""),
                    data |-> response.data])

\* the function of the API modules applied to the settled pipeline call
ApiResult(call, p) ==
  IF p.thrown THEN ApiThrown(p.error)
  ELSE CASE call = "jobsApi.getAll" -> jobsApiGetAll(p.body)
         [] call = "jobsApi.getUserJobs" -> jobsApiGetUserJobs(p.body)
         [] call = "jobsApi.getAllAdmin" -> jobsApiGetAllAdmin(p.body)
         [] call = FetchAllApplications -> applicationsApiGetAll(p.body)
         [] call \in {CreateApplication, "applicationsApi.update"} -> NormalizedItem(p.body)
         [] OTHER -> ApiReturned(p.body)

\* The hooks around applicationsApi.create and applicationsApi.getAll: what
\* they return or keep as state.data, and what their catch block does to
\* localStorage.  The other calls have no hook in this layer.
HookOutcome(s, result, data) == [s |-> s, result |-> result, data |-> data]

createApplication(a, s) ==
  IF a.thrown
    THEN HookOutcome(CatchApiError(a.error, s).s, CatchApiError(a.error, s).result, <<>>)
    ELSE HookOutcome(s, Returned(TRUE, "Application submitted successfully!"), <<>>)

\* setState({ data: response || [], ... }); every value getAll returns is truthy
fetchAllApplications(a, s) ==
  IF a.thrown
    THEN HookOutcome(CatchApiError(a.error, s).s, CatchApiError(a.error, s).result, <<>>)
    ELSE HookOutcome(s, NoResult, a.value)

HookResult(call, a, s) ==
  CASE call = CreateApplication -> createApplication(a, s)
    [] call = FetchAllApplications -> fetchAllApplications(a, s)
    [] OTHER -> HookOutcome(s, NoResult, <<>>)

----------------------------------------------------------------------------
\* One call at a time travels through the pipeline.

ApiEvent(op, caller, outcome, api, hook) ==
  [op |-> op, caller |-> caller, outcome |-> outcome, api |-> api,
   result |-> hook.result, data |-> hook.data]

NoHook == HookOutcome(Current, NoResult, <<>>)

\* request: config built, controller.abort() scheduled, fetch called
ApiIssue ==
  \E call \in ApiCalls : \E arg \in Arguments(call) : \E params \in Params(call) :
    /\ inflight = {}
    /\ now + Timeout <= MaxClock
    /\ inflight' = {[caller |-> call, arg |-> arg,
                     params |-> params, url |-> getUrl(params),
                     config |-> requestConfig(OptionsOf(call, arg), storage),
                     phase |-> "fetch", issued |-> now, timer |-> <<now + Timeout>>]}
    /\ last' = ApiEvent("issue", call, <<>>, <<>>, NoHook)
    /\ UNCHANGED <<ui, storage, userStore, user, isLoading, initialized, now, nextTick>>

\* the call settles: request's outcome, the API function, the hook
Settle(r, res) ==
  LET p == request(res)
      a == ApiResult(r.caller, p)
      h == HookResult(r.caller, a, Current)
  IN /\ Commit(h.s)
     /\ inflight' = {}
     /\ last' = ApiEvent("settle", r.caller, <<p>>, <<a>>, h)
     /\ UNCHANGED <<ui, isLoading, initialized, now, nextTick>>

\* fetch resolves with the response headers; clearTimeout(timeoutId)
HeadersArrive ==
  \E r \in inflight :
    /\ r.phase = "fetch"
    /\ now < r.timer[1]
    /\ inflight' = {[r EXCEPT !.phase = "body", !.timer = <<>>]}
    /\ last' = ApiEvent("headers", r.caller, <<>>, <<>>, NoHook)
    /\ UNCHANGED <<ui, storage, userStore, user, isLoading, initialized, now, nextTick>>

\* the timeout callback: controller.abort(), fetch rejects with AbortError
TimerFires ==
  \E r \in inflight :
    /\ r.phase = "fetch"
    /\ now >= r.timer[1]
    /\ Settle(r, Aborted)

\* fetch rejects: no response at all
FetchFails ==
  \E r \in inflight :
    /\ r.phase = "fetch"
    /\ now < r.timer[1]
    /\ Settle(r, NetworkFailure)

\* handleResponse: response.json() / response.text() settles
BodyRead ==
  \E r \in inflight : \E res \in ApiResponses :
    /\ r.phase = "body"
    /\ Settle(r, res)

\* Time passes; a due timeout callback runs before more time passes.
ClockTick ==
  /\ now + ClockStep <= MaxClock
  /\ \A r \in inflight : r.timer # <<>> => now < r.timer[1]
  /\ now' = now + ClockStep
  /\ UNCHANGED <<ui, storage, userStore, user, isLoading, initialized, nextTick, inflight, last>>

\* Elsewhere in the application login stores a token, logout removes it.
TokenStored ==
  /\ storage # StorageSet(JsString(TokEmployer))
  /\ storage' = StorageSet(JsString(TokEmployer))
  /\ last' = ApiEvent("login", "", <<>>, <<>>, NoHook)
  /\ UNCHANGED <<ui, userStore, user, isLoading, initialized, now, nextTick, inflight>>

TokenRemoved ==
  /\ storage # StorageRemove
  /\ storage' = StorageRemove
  /\ last' = ApiEvent("logout", "", <<>>, <<>>, NoHook)
  /\ UNCHANGED <<ui, userStore, user, isLoading, initialized, now, nextTick, inflight>>

ApiStoredItems ==
  {NoItem, GarbageItem, JsonItem(JsEmptyString), JsonItem(JsNumber),
   JsonItem(JsString(TokSeeker))}

ApiInit ==
  /\ storage \in ApiStoredItems
  /\ userStore = FALSE
  /\ user = <<>>
  /\ isLoading = FALSE
  /\ initialized = TRUE
  /\ now = 0
  /\ nextTick = <<>>
  /\ inflight = {}
  /\ last = ApiEvent("start", "", <<>>, <<>>, NoHook)
  /\ ui = [loginForm |-> <<>>, mounts |-> 0]

ApiNext ==
  \/ ApiIssue
  \/ HeadersArrive
  \/ TimerFires
  \/ FetchFails
  \/ BodyRead
  \/ ClockTick
  \/ TokenStored
  \/ TokenRemoved

\* The event loop runs a due timeout callback, and time does not stop.
ApiSpec ==
  /\ ApiInit
  /\ [][ApiNext]_vars
  /\ WF_vars(TimerFires)
  /\ WF_vars(ClockTick)

----------------------------------------------------------------------------
\* The sign-in screen: AuthWrapper (App.tsx) and the LoginForm it renders,
\* over the login and logout of AuthProvider.

MaxMounts == 3

\* AuthWrapper's render: the loading screen while isLoading, the Dashboard
\* for a user, else the auth form; a LoginForm that is not rendered is
\* unmounted and the next one rendered starts from its useState defaults.
AuthWrapper(screen, loading, u) ==
  IF loading \/ u # <<>> THEN [screen EXCEPT !.loginForm = <<>>]
  ELSE IF screen.loginForm # <<>> THEN screen
  ELSE [screen EXCEPT !.loginForm = <<[id |-> screen.mounts + 1, filled |-> FALSE,
                                         apiError |-> ""]>>,
                      !.mounts = screen.mounts + 1]

\* a state setter of LoginForm instance id; nothing when it is unmounted
setApiError(screen, id, message) ==
  IF screen.loginForm # <<>> /\ screen.loginForm[1].id = id
    THEN [screen EXCEPT !.loginForm[1].apiError = message]
    ELSE screen

\* LoginForm.handleInputChange
handleInputChange ==
  /\ ui.loginForm # <<>>
  /\ ~ui.loginForm[1].filled \/ ui.loginForm[1].apiError # ""
  /\ ui' = [ui EXCEPT !.loginForm[1].filled = TRUE, !.loginForm[1].apiError = ""]
  /\ last' = Event("input", "LoginForm", <<>>, NoResult, JsNull)
  /\ UNCHANGED <<storage, userStore, user, isLoading, initialized, now, nextTick, inflight>>

\* LoginForm.handleSubmit up to `await login(formData)`; login has called
\* setIsLoading(true) and request has called fetch
handleSubmit ==
  /\ ui.loginForm # <<>>
  /\ ui.mounts < MaxMounts
  /\ inflight = {}
  /\ LET cleared == setApiError(ui, ui.loginForm[1].id, "") IN
     IF ~ui.loginForm[1].filled
       THEN /\ ui' = cleared
            /\ last' = Event("invalid", "LoginForm", <<>>, NoResult, JsNull)
            /\ UNCHANGED <<isLoading, inflight>>
       ELSE /\ isLoading' = TRUE
            /\ inflight' = {[caller |-> "login", auth |-> StorageGet(storage),
                             form |-> ui.loginForm[1].id]}
            /\ ui' = AuthWrapper(cleared, TRUE, user)
            /\ last' = Event("loginStart", "login", <<>>, NoResult, JsNull)
  /\ UNCHANGED <<storage, userStore, user, initialized, now, nextTick>>

\* login from the settling of authApi.login to its return, then the rest of
\* handleSubmit, then the render
LoginSettles ==
  \E r \in inflight : \E res \in LoginResponses \cup Failures :
    /\ r.caller = "login"
    /\ LET o == login(Current, res)
           s == ExpiryEffect(o.s)
           message == OrElse(o.result[1].message, "Login failed")
       IN /\ Commit(s)
          /\ IF o.setUser THEN RestartInterval ELSE UNCHANGED nextTick
          /\ last' = Event("login", "login", StatusOf(request(res)), o.result,
                           IF res.kind = "response" THEN res.body.accessToken ELSE JsUndefined)
          /\ ui' = AuthWrapper(IF o.result[1].success THEN ui
                                 ELSE setApiError(ui, r.form, message),
                               FALSE, s.user)
    /\ isLoading' = FALSE
    /\ inflight' = {}
    /\ UNCHANGED <<initialized, now>>

\* logout from the Dashboard; AuthWrapper renders the auth form again
LogoutToForm ==
  /\ DashboardShown
  /\ ui.mounts < MaxMounts
  /\ Commit(ClearedSession)
  /\ RestartInterval
  /\ ui' = AuthWrapper(ui, isLoading, <<>>)
  /\ last' = [Event("logout", "", <<>>, Returned(TRUE, ""), JsNull) EXCEPT !.prev = last.op]
  /\ UNCHANGED <<isLoading, initialized, now, inflight>>

\* The sign-in screen after a page load in which initializeAuth found no
\* session.
LoginInit ==
  /\ now = 0
  /\ \E item \in StoredItems :
       LET s == ExpiryEffect(initializeAuth([storage |-> item, userStore |-> FALSE,
                                             user |-> <<>>]))
       IN /\ s.user = <<>>
          /\ storage = s.storage
          /\ userStore = s.userStore
          /\ user = s.user
  /\ isLoading = FALSE
  /\ initialized = TRUE
  /\ nextTick = <<TimerInterval>>
  /\ inflight = {}
  /\ last = Event("initialize", "", <<>>, Returned(TRUE, ""), JsNull)
  /\ ui = AuthWrapper([loginForm |-> <<>>, mounts |-> 0], FALSE, <<>>)

LoginNext ==
  \/ handleInputChange
  \/ handleSubmit
  \/ LoginSettles
  \/ LogoutToForm

LoginSpec == LoginInit /\ [][LoginNext]_vars

----------------------------------------------------------------------------
\* The pages of the Dashboard that list data: each mounts one data-fetching
\* hook and one mutation hook.  A fetch or mutation is a request in
\* `inflight` that carries its number in the order of issue.

MaxFetches == 3
MaxMutations == 2

\* the fetch function of the data hook the page mounts
FetchOf(page) ==
  CASE page = "JobsPage" -> "useJobs.fetchJobs"
    [] page = "MyJobsPage" -> "useUserJobs.fetchUserJobs"
    [] page = "AdminPage" -> "useAdminJobs.getAllAdminJobs"
    [] page = "EmployerApplicationsPage" -> "useEmployerApplications.fetchEmployerApplications"

\* the mutation the page calls
MutationOf(page) ==
  CASE page = "JobsPage" -> "useApplicationMutations.createApplication"
    [] page = "MyJobsPage" -> "useJobMutations.deleteJob"
    [] page = "AdminPage" -> "useJobMutations.updateJobStatus"
    [] page = "EmployerApplicationsPage" -> "useApplicationMutations.updateApplication"

\* the jobs a list shows
PageJobs == {[id |-> 1, status |-> "ACTIVE"], [id |-> 2, status |-> "INACTIVE"]}

\* setState((prev) => ({...prev, loading: true, error: null})) and the call
StartFetch(page) ==
  [page EXCEPT !.jobs.loading = TRUE, !.jobs.error = <<>>, !.issued = @ + 1]

\* the page shows its list: the early returns for loading and error passed
ListShown == ~ui.jobs.loading /\ ui.jobs.error = <<>> /\ ui.jobs.data # <<>>

\* JobsPage renders ApplicationModal
ApplicationModalShown ==
  ListShown /\ ui.showApplicationModal /\ ui.selectedJob # <<>>

\* JobsPage renders JobDetailModal open
JobDetailModalShown ==
  ListShown /\ ui.showJobDetailModal /\ ui.selectedJob # <<>>

\* refetch(), or the effect after the filters changed.  The Refresh button
\* of AdminPage is rendered while loading; the other pages render their
\* Refresh and Try Again buttons and their filter inputs when not loading.
Refetch ==
  /\ ui.name = "AdminPage" \/ ~ui.jobs.loading
  /\ ui.issued < MaxFetches
  /\ ui' = StartFetch(ui)
  /\ inflight' = inflight \cup {[caller |-> FetchOf(ui.name), auth |-> StorageGet(storage),
                                 n |-> ui.issued + 1]}
  /\ last' = Event("fetch", FetchOf(ui.name), <<>>, NoResult, JsNull)
  /\ UNCHANGED <<storage, userStore, user, isLoading, initialized, now, nextTick>>

\* the fetch function after its await
FetchSettles ==
  \E r \in inflight : \E res \in MessageResponses \cup Failures :
    /\ r.caller = FetchOf(ui.name)
    /\ LET p == request(res) IN
         IF p.thrown
           THEN /\ Commit(handleApiErrorStorage(p.error, Current))
                /\ ui' = [ui EXCEPT !.jobs =
                            [data |-> <<>>, loading |-> FALSE,
                             error |-> <<[of |-> r.n,
                                          message |-> handleApiErrorMessage(p.error)]>>]]
                /\ last' = Event("fetched", r.caller, StatusOf(p),
                                 Returned(FALSE, handleApiErrorMessage(p.error)), JsNull)
           ELSE /\ Commit(Current)
                /\ ui' = [ui EXCEPT !.jobs = [data |-> <<[of |-> r.n]>>, loading |-> FALSE,
                                              error |-> <<>>]]
                /\ last' = Event("fetched", r.caller, <<>>, Returned(TRUE, ""), JsNull)
    /\ inflight' = inflight \ {r}
    /\ UNCHANGED <<isLoading, initialized, now, nextTick>>

\* a mutation function up to its await: setLoading(true), the request.
\* ApplicationModal (JobsPage) and EmployerApplicationsPage disable the
\* control while the hook is loading; MyJobsPage and AdminPage do not.
Mutate ==
  /\ CASE ui.name = "JobsPage" -> ApplicationModalShown /\ ~ui.mutating
       [] ui.name = "EmployerApplicationsPage" -> ListShown /\ ~ui.mutating
       [] OTHER -> ListShown
  /\ ui.started < MaxMutations
  /\ ui' = [ui EXCEPT !.mutating = TRUE, !.started = @ + 1]
  /\ inflight' = inflight \cup {[caller |-> MutationOf(ui.name), auth |-> StorageGet(storage),
                                 n |-> ui.started + 1]}
  /\ last' = Event("mutate", MutationOf(ui.name), <<>>, NoResult, JsNull)
  /\ UNCHANGED <<storage, userStore, user, isLoading, initialized, now, nextTick>>

\* a mutation function after its await, its finally, and the page's handler
\* that awaited it
MutationSettles ==
  \E r \in inflight : \E res \in MessageResponses \cup Failures :
    /\ r.caller = MutationOf(ui.name)
    /\ LET p == request(res)
           done == [ui EXCEPT !.mutating = FALSE]
       IN IF p.thrown
            THEN /\ Commit(handleApiErrorStorage(p.error, Current))
                 /\ ui' = done
                 /\ inflight' = inflight \ {r}
                 /\ last' = Event("mutated", r.caller, StatusOf(p),
                                  Returned(FALSE, handleApiErrorMessage(p.error)), JsNull)
            ELSE /\ Commit(Current)
                 /\ IF ui.name # "JobsPage"
                      THEN /\ ui.issued < MaxFetches
                           /\ ui' = StartFetch(done)
                           /\ inflight' = (inflight \ {r}) \cup
                                {[caller |-> FetchOf(ui.name), auth |-> StorageGet(storage),
                                  n |-> ui.issued + 1]}
                      ELSE /\ ui' = [done EXCEPT !.showApplicationModal = FALSE,
                                                 !.selectedJob = <<>>]
                           /\ inflight' = inflight \ {r}
                 /\ last' = Event("mutated", r.caller, <<>>, Returned(TRUE, ""), JsNull)
    /\ UNCHANGED <<isLoading, initialized, now, nextTick>>

\* JobsPage.handleViewJob, from the View button of a JobCard
handleViewJob ==
  \E job \in PageJobs :
    /\ ui.name = "JobsPage"
    /\ ListShown /\ ~ApplicationModalShown /\ ~JobDetailModalShown
    /\ ui' = [ui EXCEPT !.selectedJob = <<job>>, !.showJobDetailModal = TRUE]
    /\ last' = Event("view", "JobsPage", <<>>, NoResult, JsNull)
    /\ UNCHANGED <<storage, userStore, user, isLoading, initialized, now, nextTick, inflight>>

\* JobsPage.handleApplyToJob, from the Apply Now button of a JobCard
handleApplyToJob ==
  \E job \in PageJobs :
    /\ ui.name = "JobsPage"
    /\ ListShown /\ ~ApplicationModalShown /\ ~JobDetailModalShown
    /\ user[1].role = "SEEKER" /\ job.status = "ACTIVE"
    /\ ui' = [ui EXCEPT !.selectedJob = <<job>>, !.showApplicationModal = TRUE]
    /\ last' = Event("apply", "JobsPage", <<>>, NoResult, JsNull)
    /\ UNCHANGED <<storage, userStore, user, isLoading, initialized, now, nextTick, inflight>>

\* JobDetailModal.handleApply, from its Apply Now button: onApply(job) is
\* handleApplyToJob, onClose() is handleCloseJobDetailModal
handleApply ==
  /\ ui.name = "JobsPage"
  /\ JobDetailModalShown
  /\ user[1].role = "SEEKER" /\ ui.selectedJob[1].status = "ACTIVE"
  /\ LET applied == [ui EXCEPT !.selectedJob = <<ui.selectedJob[1]>>,
                               !.showApplicationModal = TRUE]
     IN ui' = [applied EXCEPT !.showJobDetailModal = FALSE, !.selectedJob = <<>>]
  /\ last' = Event("applyNow", "JobDetailModal", <<>>, NoResult, JsNull)
  /\ UNCHANGED <<storage, userStore, user, isLoading, initialized, now, nextTick, inflight>>

\* JobsPage.handleCloseJobDetailModal
handleCloseJobDetailModal ==
  /\ ui.name = "JobsPage"
  /\ JobDetailModalShown
  /\ ui' = [ui EXCEPT !.showJobDetailModal = FALSE, !.selectedJob = <<>>]
  /\ last' = Event("closeDetail", "JobsPage", <<>>, NoResult, JsNull)
  /\ UNCHANGED <<storage, userStore, user, isLoading, initialized, now, nextTick, inflight>>

\* ApplicationModal.handleClose -> JobsPage.handleCloseApplicationModal
handleCloseApplicationModal ==
  /\ ui.name = "JobsPage"
  /\ ApplicationModalShown
  /\ ~ui.mutating
  /\ ui' = [ui EXCEPT !.showApplicationModal = FALSE, !.selectedJob = <<>>]
  /\ last' = Event("closeApplication", "JobsPage", <<>>, NoResult, JsNull)
  /\ UNCHANGED <<storage, userStore, user, isLoading, initialized, now, nextTick, inflight>>

\* A page of a signed-in user right after it mounted: the hooks' useState
\* defaults, and the first fetch issued by the mount effect.
PageInit ==
  /\ \E opened \in {<<"JobsPage", TokSeeker>>, <<"JobsPage", TokEmployer>>,
                     <<"JobsPage", TokNoExp>>, <<"MyJobsPage", TokEmployer>>,
                     <<"EmployerApplicationsPage", TokEmployer>>, <<"AdminPage", TokNoExp>>} :
       LET name == opened[1]
           t == opened[2]
       IN
       /\ storage = StorageSet(JsString(t))
       /\ user = <<DecodeToken(JsString(t)).user>>
       /\ ui = [name |-> name,
                jobs |-> [data |-> <<>>, loading |-> TRUE, error |-> <<>>], issued |-> 1,
                mutating |-> FALSE, started |-> 0,
                selectedJob |-> <<>>, showJobDetailModal |-> FALSE,
                showApplicationModal |-> FALSE]
       /\ inflight = {[caller |-> FetchOf(name), auth |-> JsString(t), n |-> 1]}
  /\ userStore = FALSE
  /\ isLoading = FALSE
  /\ initialized = TRUE
  /\ now = 0
  /\ nextTick = <<TimerInterval>>
  /\ last = Event("fetch", "", <<>>, NoResult, JsNull)

PageNext ==
  \/ Refetch
  \/ FetchSettles
  \/ Mutate
  \/ MutationSettles
  \/ handleViewJob
  \/ handleApplyToJob
  \/ handleApply
  \/ handleCloseJobDetailModal
  \/ handleCloseApplicationModal

PageSpec == PageInit /\ [][PageNext]_vars

----------------------------------------------------------------------------
\* What the claims speak of

\* UNINITIALIZED / ANONYMOUS / AUTHENTICATED: the in-memory session
SessionState ==
  IF ~initialized THEN "UNINITIALIZED"
  ELSE IF user = <<>> THEN "ANONYMOUS" ELSE "AUTHENTICATED"

\* v is a string of at least two dot-separated segments whose second one is
\* the base64 text of a JSON object
HasPayload(v) ==
  /\ v.t = "string"
  /\ Len(v.tok) >= 2
  /\ v.tok[2].b64
  /\ v.tok[2].json = "object"

PayloadOf(v) == v.tok[2].obj

\* the expiry instant exp (seconds) lies in the future, or has passed, at t (ms)
FutureExpiry(exp, t) == exp # <<>> /\ t < exp[1] * MsPerSecond
PastExpiry(exp, t) == exp # <<>> /\ t >= exp[1] * MsPerSecond

SessionOf(v) == <<[id |-> PayloadOf(v).sub, role |-> PayloadOf(v).role, exp |-> PayloadOf(v).exp]>>

AuthOperation ==
  \/ last.op \in {"initialize", "login", "logout"}
  \/ last.op = "done" /\ last.caller \in PassThroughs

----------------------------------------------------------------------------
\* C1: when the stored token has a payload that decodes and an expiry
\* instant in the future, initialize() leaves an AUTHENTICATED session whose
\* id and role are the sub and role of the payload.
C1_InitializeAuthenticates ==
  (/\ last.op = "initialize"
   /\ HasPayload(last.token)
   /\ FutureExpiry(PayloadOf(last.token).exp, now))
  => /\ SessionState = "AUTHENTICATED"
     /\ user[1].id = PayloadOf(last.token).sub
     /\ user[1].role = PayloadOf(last.token).role

C1_Witness ==
  /\ last.op = "initialize"
  /\ HasPayload(last.token)
  /\ FutureExpiry(PayloadOf(last.token).exp, now)
  /\ now > 0
  /\ user # <<>>
  /\ user[1].role = "SEEKER"

\* C2: when the stored token has a past expiry or is malformed (the item
\* under the token key cannot be decoded into a session), initialize()
\* leaves ANONYMOUS, erases the stored item, and throws nothing.
MalformedItem(item) ==
  /\ item.present
  /\ ~item.json \/ ~HasPayload(item.val)

ExpiredItem(item, t) ==
  /\ item.present
  /\ item.json
  /\ HasPayload(item.val)
  /\ PastExpiry(PayloadOf(item.val).exp, t)

C2_ExpiredOrMalformedErased ==
  [][(/\ last'.op = "initialize"
      /\ MalformedItem(storage) \/ ExpiredItem(storage, now))
     => /\ SessionState' = "ANONYMOUS"
        /\ ~storage'.present
        /\ ~last'.result[1].thrown]_vars

\* C3: when login gets a 200 answer with an accessToken, the token is
\* persisted, the session is the identity decoded from it, the result is a
\* success with a message, and isAuthenticated is true.
C3_LoginSuccess ==
  (last.op = "login" /\ Truthy(last.token))
  => /\ storage = JsonItem(last.token)
     /\ last.result[1].success
     /\ last.result[1].message # ""
     /\ isAuthenticated

\* C3 as amended: the same, for an accessToken whose payload decodes and
\* whose expiry has not passed when the answer arrives.
C3_LoginSuccessDecodable ==
  (/\ last.op = "login"
   /\ HasPayload(last.token)
   /\ ~PastExpiry(PayloadOf(last.token).exp, now))
  => /\ storage = JsonItem(last.token)
     /\ user = SessionOf(last.token)
     /\ ~last.result[1].thrown
     /\ last.result[1].success
     /\ last.result[1].message # ""
     /\ isAuthenticated

C3_Witness ==
  /\ last.op = "login"
  /\ HasPayload(last.token)
  /\ FutureExpiry(PayloadOf(last.token).exp, now)
  /\ last.result[1].success
  /\ storage = JsonItem(last.token)
  /\ isAuthenticated

C5_Any401ErasesToken ==
  last.status = <<401>> => ~storage.present

\* C6: after a call has ended in a 401, whichever call it was, the
\* in-memory session is cleared.
C6_Any401ClearsSession ==
  last.status = <<401>> => SessionState = "ANONYMOUS"

C7_ExpiredAwaitsTick ==
  (user # <<>> /\ PastExpiry(user[1].exp, now))
  => /\ nextTick # <<>>
     /\ now <= nextTick[1]
     /\ nextTick[1] < user[1].exp[1] * MsPerSecond + TimerInterval

C7_TickStep ==
  (last'.op = "tick" /\ user # <<>> /\ PastExpiry(user[1].exp, now))
  => /\ user' = <<>>
     /\ ~storage'.present
     /\ now' = now

C7_ReadStep ==
  last'.op = "read"
  => /\ UNCHANGED <<ui, storage, userStore, user>>
     /\ (user # <<>> /\ PastExpiry(user[1].exp, now)) => ~last'.result[1].success

C9_AfterLogout ==
  last.op = "logout"
  => /\ ~storage.present
     /\ ~userStore
     /\ user = <<>>

C9_SecondLogout ==
  (last.op = "logout" /\ last'.op = "logout")
  => UNCHANGED <<ui, storage, userStore, user, isLoading, nextTick, inflight>>

C9_LogoutThenInitialize ==
  (last.op = "reload" /\ last.prev = "logout" /\ last'.op = "initialize")
  => SessionState' = "ANONYMOUS"

C9_LogoutIdempotent ==
  /\ []C9_AfterLogout
  /\ [][C9_SecondLogout /\ C9_LogoutThenInitialize]_vars

C9_Witness ==
  /\ last.op = "logout"
  /\ last.prev = "logout"
  /\ Cardinality(inflight) > 0

\* C10: each public operation of the session manager returns; a failure of
\* the domain API comes back as a result with success false and a message.
C10_NoThrow ==
  AuthOperation
  => /\ last.result # <<>>
     /\ ~last.result[1].thrown
     /\ last.status # <<>> => (~last.result[1].success /\ last.result[1].message # "")

C10_Witness ==
  /\ last.op = "login"
  /\ last.status = <<0>>
  /\ ~last.result[1].success
  /\ last.result[1].message = "Failed to fetch"

----------------------------------------------------------------------------
\* What the claims about the API layer speak of

\* the item under STORAGE_KEYS.TOKEN is the JSON text of a non-empty token
HoldsToken(item) == item.present /\ item.json /\ item.val.t \in {"string", "number"}

\* the requests the step has issued
Issued == IF last'.op = "issue" THEN inflight' ELSE {}

\* C11: a request issued while storage holds no token carries no
\* Authorization header; a request issued while storage holds the token t
\* carries Authorization: Bearer t, t being the token in storage when the
\* request is issued; the header of a request in flight does not change
\* with storage.
C11_AuthorizationHeader ==
  [][/\ \A r \in Issued :
          r.config.headers.Authorization =
            IF HoldsToken(storage)
              THEN <<[scheme |-> "Bearer", token |-> storage.val]>>
              ELSE <<>>
     /\ \A r \in inflight : \A q \in inflight' : q.config = r.config]_vars

\* a request carrying the token it was issued with after the token was removed
C11_Witness ==
  \E r \in inflight :
    /\ r.config.headers.Authorization = <<[scheme |-> "Bearer", token |-> JsString(TokSeeker)]>>
    /\ ~HoldsToken(storage)

----------------------------------------------------------------------------
\* the call of the last step settled with the ApiError of this status
SettledWith(status) ==
  /\ last.op = "settle"
  /\ last.outcome[1].thrown
  /\ last.outcome[1].error.type = "ApiError"
  /\ last.outcome[1].error.status = status

\* a request is still pending more than the timeout after it was issued
Overdue == \E r \in inflight : now > r.issued + Timeout

\* the timeout has passed and fetch has not delivered the response headers
HeadersLate == \E r \in inflight : r.phase = "fetch" /\ now >= r.timer[1]

\* What request does guarantee: when the headers have not come in time the
\* call settles with status 408.
C12_HeadersLateTimesOut == HeadersLate ~> (inflight = {} /\ SettledWith(408))

\* C12: a request whose response takes longer than the 10 s timeout settles
\* with the classified error of status 408; it does not stay pending.
C12_SlowResponseTimesOut == Overdue ~> (inflight = {} /\ SettledWith(408))

----------------------------------------------------------------------------
\* C13: every failure of a pipeline call (get, post, put, patch, delete)
\* reaches the caller as an ApiError, never as another exception type.
C13_OnlyApiErrorCrosses ==
  (last.op = "settle" /\ last.outcome[1].thrown)
    => last.outcome[1].error.type = "ApiError"

----------------------------------------------------------------------------
\* C14: the request of createApplication has a multipart body and no
\* Content-Type header set by the client; the body has the description
\* part, and the resume part exactly when a file was given.
C14_CreateApplicationMultipart ==
  \A r \in inflight :
    r.caller = CreateApplication =>
      /\ r.config.method = "POST"
      /\ r.config.body.kind = "multipart"
      /\ r.config.headers.ContentType = <<>>
      /\ "description" \in r.config.body.parts
      /\ (("resume" \in r.config.body.parts) <=> (r.arg.resume # <<>>))

\* an application without a file is on its way
C14_Witness ==
  \E r \in inflight :
    /\ r.caller = CreateApplication
    /\ r.arg.resume = <<>>
    /\ r.config.body.parts = {"description"}

----------------------------------------------------------------------------
\* C15: when createApplication is answered with status 409 the message it
\* returns is "You have already applied to this job.", whatever message the
\* error body carries.
C15_AlreadyApplied ==
  (last.caller = CreateApplication /\ SettledWith(409))
    => last.result = Returned(FALSE, "You have already applied to this job.")

----------------------------------------------------------------------------
\* the sentence handleApiError has for a status when the error has no text
FixedMessage(status) ==
  CASE status = 401 -> "Your session has expired. Please log in again."
    [] status = 403 -> "You do not have permission to perform this action."
    [] status = 404 -> "The requested resource was not found."
    [] status = 409 -> "A conflict occurred. This item may already exist."
    [] status = 422 -> "Please check your input and try again."
    [] status = 429 -> "Too many requests. Please try again later."
    [] status = 500 -> "A server error occurred. Please try again later."
    [] OTHER -> "An unexpected error occurred."

GenericFallback == "An unexpected error occurred. Please try again."

\* the last step ended in the catch block of a hook that calls handleApiError
Handled ==
  /\ last.op = "settle"
  /\ last.caller \in {CreateApplication, FetchAllApplications}
  /\ last.api[1].thrown

\* C16: handleApiError gives each status of an ApiError its own fixed
\* message, whatever the error carries, and gives every other error the
\* one generic fallback message.
C16_FixedMessages ==
  Handled =>
    last.result[1].message =
      IF last.api[1].error.type = "ApiError"
        THEN FixedMessage(last.api[1].error.status)
        ELSE GenericFallback

----------------------------------------------------------------------------
\* the call of the last step was answered with a JSON array or object
AnsweredWithJson(call) ==
  /\ last.op = "settle"
  /\ last.caller = call
  /\ ~last.outcome[1].thrown
  /\ last.outcome[1].body.json \in {"array", "object"}

\* C17: applicationsApi.getAll returns an array, and fetchAllApplications
\* keeps an array as its data, whether the backend answered with a bare
\* array or with an object with or without a data array.
C17_GetAllReturnsArray ==
  AnsweredWithJson(FetchAllApplications) =>
    /\ ~last.api[1].thrown
    /\ last.api[1].value[1].json = "array"
    /\ last.data[1].json = "array"

----------------------------------------------------------------------------
\* the jobs a response body holds, under any of the three wrappings
JobsOf(body) ==
  IF body.json = "array" THEN body.items
  ELSE IF body.data # <<>> THEN body.data[1]
  ELSE <<>>

\* C18: getAll, getUserJobs and getAllAdmin return a status, a message and
\* a data array holding the jobs of the response, whether the backend sent
\* them as a bare array, as {data} or as {status, message, data}.
C18_SameNormalizedResponse ==
  \A call \in JobListCalls :
    AnsweredWithJson(call) =>
      /\ ~last.api[1].thrown
      /\ last.api[1].value[1].status # ""
      /\ Len(last.api[1].value[1].data) = Len(JobsOf(last.outcome[1].body))
      /\ \A i \in 1..Len(last.api[1].value[1].data) :
           last.api[1].value[1].data[i].id = JobsOf(last.outcome[1].body)[i].id

----------------------------------------------------------------------------
\* the owning user of a job as the backend sent it, under either field name
OwnerOf(rawJob) == IF rawJob.userId # <<>> THEN rawJob.userId ELSE rawJob.employerId

\* C19: every job the job list calls return has the identifier of its
\* owning user under employerId, whether the backend sent it under userId
\* or under employerId.
C19_OwnerUnderEmployerId ==
  \A call \in JobListCalls :
    (AnsweredWithJson(call) /\ ~last.api[1].thrown) =>
      \A i \in 1..Len(last.api[1].value[1].data) :
        /\ last.api[1].value[1].data[i].employerId # <<>>
        /\ last.api[1].value[1].data[i].employerId = OwnerOf(JobsOf(last.outcome[1].body)[i])

----------------------------------------------------------------------------
\* C20: whenever isAuthenticated is read it is true exactly when a session
\* is present and the current time is earlier than its expiry instant; a
\* session past its expiry, or one whose token carried no expiry, is not
\* reported as authenticated.
C20_AuthenticatedIffUnexpired ==
  last.op = "read" =>
    (last.result[1].success <=> (user # <<>> /\ FutureExpiry(user[1].exp, now)))

----------------------------------------------------------------------------
\* the values with which a parameter is to be left out of the URL
OmittedValues == {"undefined", "null", ""}

\* C21: get appends to the path exactly the parameters whose value is
\* neither null, nor undefined, nor the empty string.
C21_GetOmitsEmptyParams ==
  \A r \in inflight :
    r.params # <<>> =>
      r.url.query =
        {<<k, r.params[1][k]>> :
           k \in {j \in DOMAIN r.params[1] : r.params[1][j] \notin OmittedValues}}

----------------------------------------------------------------------------
\* C22: a request issued with a token stays in flight through every step
\* that ends the session (the interval's expiry check, logout, a 401 handled
\* for another request); it leaves only by the step that settles it.  Only
\* loading the page again drops the pending requests.
C22_NoCancellation ==
  [][last'.op # "reload" =>
       \A r \in inflight :
         Truthy(r.auth) =>
           \/ r \in inflight'
           \/ last'.op \in {"done", "login"} /\ last'.caller = r.caller]_vars

\* the session has just been ended with a request issued under it pending
C22_Witness ==
  /\ last.op \in {"logout", "tick"}
  /\ user = <<>>
  /\ ~HoldsToken(storage)
  /\ \E r \in inflight : r.caller \in Hooks /\ Truthy(r.auth)

----------------------------------------------------------------------------
\* C23: in every state after initialize the session in memory and the
\* stored token agree: the session is present exactly when storage holds a
\* token.
C23_SessionAgreesWithStorage ==
  initialized => (user # <<>> <=> HoldsToken(storage))

----------------------------------------------------------------------------
\* the requests the step settles
SettledNow == inflight \ inflight'

\* C24: a 401 for a request that was issued before a login, under an older
\* token or none, and that is answered after the login has stored its
\* token, leaves that token in storage.
C24_Late401KeepsNewToken ==
  [][(/\ last'.op = "done"
      /\ last'.status = <<401>>
      /\ HoldsToken(storage)
      /\ \E r \in SettledNow : r.auth # storage.val)
       => storage' = storage]_vars

----------------------------------------------------------------------------
\* C25: when login returns a failure result the stored token and the
\* session in memory are what they were before.
C25_FailedLoginChangesNothing ==
  [][(last'.op = "login" /\ ~last'.result[1].success)
       => (storage' = storage /\ user' = user)]_vars

----------------------------------------------------------------------------
----------------------------------------------------------------------------
\* C29: when login returns a failure result, the LoginForm instance that
\* submitted it is mounted, still holds the credentials typed into it, and
\* its apiError is the failure message.
C29_FailedLoginShownOnForm ==
  [][\A r \in SettledNow :
       (r.caller = "login" /\ last'.op = "login" /\ ~last'.result[1].success) =>
         /\ ui'.loginForm # <<>>
         /\ ui'.loginForm[1].id = r.form
         /\ ui'.loginForm[1].filled
         /\ ui'.loginForm[1].apiError = OrElse(last'.result[1].message, "Login failed")]_vars

\* C29, second half: the submitting form is mounted for as long as its
\* login request is in flight.
C29_FormStaysWhileInFlight ==
  \A r \in inflight : r.caller = "login" =>
    ui.loginForm # <<>> /\ ui.loginForm[1].id = r.form

----------------------------------------------------------------------------
\* Claims about the pages

PendingFetches == {r \in inflight : r.caller = FetchOf(ui.name)}
PendingMutations == {r \in inflight : r.caller = MutationOf(ui.name)}

\* the fetch whose outcome the hook's state holds
ShownFetch ==
  IF ui.jobs.data # <<>> THEN <<ui.jobs.data[1].of>>
  ELSE IF ui.jobs.error # <<>> THEN <<ui.jobs.error[1].of>>
  ELSE <<>>

\* C26: once every fetch of a data-fetching hook has completed, the data or
\* error the hook holds is the outcome of the fetch issued last.
C26_LastIssuedFetchWins ==
  PendingFetches = {} => ShownFetch = <<ui.issued>>

\* C27: the loading flag of a mutation hook is true exactly while a mutation
\* started through it is in flight.
C27_LoadingWhileMutating ==
  ui.mutating <=> PendingMutations # {}

\* C30: Apply Now in the job detail modal, chosen by a SEEKER for an ACTIVE
\* job, leaves showApplicationModal true and selectedJob that job.
C30_ApplyNowOpensApplication ==
  [][last'.op = "applyNow" =>
       /\ ui'.showApplicationModal
       /\ ui'.selectedJob = ui.selectedJob]_vars

\* C30, second half: showApplicationModal is true only while a job is selected.
C30_ModalHasJob ==
  ui.showApplicationModal => ui.selectedJob # <<>>

====
